---- MODULE Spec2Model ----
(***************************************************************************)
(* Model of the notebook omnixai/nlp.ipynb: a linear script that builds a  *)
(* Text input, the preprocess / model / postprocess adapters and an        *)
(* NLPExplainer facade, calls explain, renders the SHAP and LIME results   *)
(* and hands the input and the explanations to a Dashboard.                *)
(*                                                                         *)
(* Two specifications are given.  Spec runs the notebook statement by      *)
(* statement.  SpecFn applies the two adapter lambdas of the notebook      *)
(* (preprocess, postprocess) to inputs drawn from bounded sets.            *)
(*                                                                         *)
(* The classes Text and NLPExplainer are imported by the notebook; their   *)
(* bodies are not in the notebook.  Text and the effect of explain are     *)
(* modelled from the specification's description of them.                  *)
(***************************************************************************)
EXTENDS Integers, Sequences, FiniteSets

\* ---------------------------------------------------------------- bounds
\* longest sequence of input strings wrapped by a Text
MaxLen == 2
\* scores are 0..MaxScore (stand-ins for the floating point class scores)
MaxScore == 2
\* attribution payloads produced by an engine are 0..MaxAttr
MaxAttr == 1

\* number of classes of the sentiment model (NEGATIVE, POSITIVE)
NumClasses == 2

\* the two literal input strings of the notebook (abbreviated)
Strings == {"Well", "Go"}
Labels == <<"NEGATIVE", "POSITIVE">>
Scores == 0..MaxScore

SeqsUpTo(S, lo, hi) == UNION {[1..n -> S] : n \in lo..hi}

Range(s) == {s[i] : i \in 1..Len(s)}

\* ---------------------------------------------------------------- state
VARIABLES
  pc,                  \* position of the notebook run
  input,               \* the list literal given to Text(...)
  defined,             \* names bound in the kernel namespace
  x,                   \* the Text input
  explainer,           \* the NLPExplainer facade
  local_explanations,  \* the mapping returned by explain
  calls,               \* invocations of explain, with their argument
  returned,            \* the mapping as it was when explain returned
  rendered,            \* ipython_plot calls: key looked up, object, step
  dashboard,           \* the Dashboard object
  trace,               \* notebook statements executed so far, in order
  fnPc,                \* position of the adapter harness (SpecFn)
  src,                 \* sequence of strings wrapped by text (SpecFn)
  text,                \* Text instance given to preprocess (SpecFn)
  batch,               \* value returned by preprocess (SpecFn)
  outputs,             \* raw outputs of the model pipeline (SpecFn)
  scores               \* value returned by postprocess (SpecFn)

nbVars == <<pc, input, defined, x, explainer, local_explanations, calls,
            returned, rendered, dashboard, trace>>
fnVars == <<fnPc, src, text, batch, outputs, scores>>
vars == <<pc, input, defined, x, explainer, local_explanations, calls,
          returned, rendered, dashboard, trace, fnPc, src, text, batch,
          outputs, scores>>

\* ------------------------------------------------------ values and lambdas
\* Text(s): a text-batch value wrapping a sequence of input strings
Text(s) == [values |-> s]

\* preprocess = lambda x: x.values
preprocess_dropfirst(t) == IF t.values = <<>> THEN <<>> ELSE Tail(t.values)
preprocess(t) == t.values

\* np.array(rows): an array with a shape and the nested data
np_array(rows) ==
  [shape |-> IF rows = <<>> THEN <<0>> ELSE <<Len(rows), Len(rows[1])>>,
   data  |-> rows]

\* postprocess = lambda outputs:
\*     np.array([[s["score"] for s in ss] for ss in outputs])
postprocess_transposed(outs) ==
  np_array([j \in 1..(IF outs = <<>> THEN 0 ELSE Len(outs[1])) |->
              [i \in 1..Len(outs) |-> outs[i][j].score]])
postprocess(outs) ==
  np_array([i \in 1..Len(outs) |->
              [j \in 1..Len(outs[i]) |-> outs[i][j].score]])

\* outputs the sentiment pipeline (return_all_scores=True) can give for a
\* batch of n strings: per input, one record per class in class order
ModelOutputs(n) ==
  {[i \in 1..n |-> [j \in 1..NumClasses |->
        [label |-> Labels[j], score |-> m[i][j]]]] :
     m \in [1..n -> [1..NumClasses -> Scores]]}

NoText == Text(<<>>)
NoExplainer == [explainers |-> <<>>, mode |-> "", model |-> "",
                preprocess |-> "", postprocess |-> ""]
NoExplanations == [n \in {} |-> 0]
NoDashboard == [instances |-> NoText, local_explanations |-> NoExplanations,
                shown |-> FALSE]
NoArray == np_array(<<>>)

NbIdle ==
  /\ pc = "start" /\ input = <<>> /\ defined = {} /\ x = NoText
  /\ explainer = NoExplainer /\ local_explanations = NoExplanations
  /\ calls = <<>> /\ returned = NoExplanations /\ rendered = <<>>
  /\ dashboard = NoDashboard /\ trace = <<>>

FnIdle ==
  /\ fnPc = "idle" /\ src = <<>> /\ text = NoText /\ batch = <<>>
  /\ outputs = <<>> /\ scores = NoArray

\* ---------------------------------------------------------------- Init
Init ==
  /\ pc = "start"
  /\ input \in SeqsUpTo(Strings, 1, MaxLen)
  /\ defined = {} /\ x = NoText
  /\ explainer = NoExplainer /\ local_explanations = NoExplanations
  /\ calls = <<>> /\ returned = NoExplanations /\ rendered = <<>>
  /\ dashboard = NoDashboard /\ trace = <<>>
  /\ FnIdle

\* ------------------------------------------------------ notebook statements
\* x = Text([...])
ConstructText ==
  /\ pc = "start"
  /\ x' = Text(input)
  /\ defined' = defined \cup {"x"}
  /\ trace' = Append(trace, "Text")
  /\ pc' = "text"
  /\ UNCHANGED <<input, explainer, local_explanations, calls, returned,
                 rendered, dashboard>>
  /\ UNCHANGED fnVars

\* preprocess = lambda ...; model = transformers.pipeline(...);
\* postprocess = lambda ...
DefineAdapters ==
  /\ pc = "text"
  /\ defined' = defined \cup {"preprocess", "model", "postprocess"}
  /\ trace' = Append(trace, "adapters")
  /\ pc' = "adapters"
  /\ UNCHANGED <<input, x, explainer, local_explanations, calls, returned,
                 rendered, dashboard>>
  /\ UNCHANGED fnVars

\* explainer = NLPExplainer(explainers=["shap", "lime"], ...)
ExplainersArg_onlyshap == <<"shap">>
ExplainersArg == <<"shap", "lime">>

ConstructExplainer ==
  /\ pc = "adapters"
  /\ {"model", "preprocess", "postprocess"} \subseteq defined
  /\ explainer' = [explainers |-> ExplainersArg, mode |-> "classification",
                   model |-> "model", preprocess |-> "preprocess",
                   postprocess |-> "postprocess"]
  /\ defined' = defined \cup {"explainer"}
  /\ trace' = Append(trace, "NLPExplainer")
  /\ pc' = "facade"
  /\ UNCHANGED <<input, x, local_explanations, calls, returned, rendered,
                 dashboard>>
  /\ UNCHANGED fnVars

\* local_explanations = explainer.explain(x)
\* The facade returns a mapping from each configured method name to the
\* explanation object produced for it; what an engine puts into the object
\* is not decided by the notebook (attribution is any payload).
Explain ==
  /\ pc = "facade"
  /\ {"explainer", "x"} \subseteq defined
  /\ \E payload \in [Range(explainer.explainers) -> 0..MaxAttr] :
       LET result == [n \in Range(explainer.explainers) |->
                        [method |-> n, attribution |-> payload[n]]]
       IN /\ local_explanations' = result
          /\ returned' = result
  /\ calls' = Append(calls, [arg |-> x])
  /\ defined' = defined \cup {"local_explanations"}
  /\ trace' = Append(trace, "explain")
  /\ pc' = "explained"
  /\ UNCHANGED <<input, x, explainer, rendered, dashboard>>
  /\ UNCHANGED fnVars

\* local_explanations["shap"].ipython_plot()
PlotShap ==
  /\ pc = "explained"
  /\ "shap" \in DOMAIN local_explanations
  /\ rendered' = Append(rendered, [key |-> "shap",
                                      obj |-> local_explanations["shap"],
                                      at  |-> Len(trace) + 1])
  /\ trace' = Append(trace, "plot_shap")
  /\ pc' = "shap"
  /\ UNCHANGED <<input, defined, x, explainer, local_explanations, calls,
                 returned, dashboard>>
  /\ UNCHANGED fnVars

\* local_explanations["lime"].ipython_plot()
PlotLime_shapagain ==
  /\ pc = "shap"
  /\ "shap" \in DOMAIN local_explanations
  /\ rendered' = Append(rendered, [key |-> "shap",
                                      obj |-> local_explanations["shap"],
                                      at  |-> Len(trace) + 1])
  /\ trace' = Append(trace, "plot_lime")
  /\ pc' = "lime"
  /\ UNCHANGED <<input, defined, x, explainer, local_explanations, calls,
                 returned, dashboard>>
  /\ UNCHANGED fnVars
PlotLime ==
  /\ pc = "shap"
  /\ "lime" \in DOMAIN local_explanations
  /\ rendered' = Append(rendered, [key |-> "lime",
                                      obj |-> local_explanations["lime"],
                                      at  |-> Len(trace) + 1])
  /\ trace' = Append(trace, "plot_lime")
  /\ pc' = "lime"
  /\ UNCHANGED <<input, defined, x, explainer, local_explanations, calls,
                 returned, dashboard>>
  /\ UNCHANGED fnVars

\* dashboard = Dashboard(instances=x, local_explanations=local_explanations)
ConstructDashboard_early ==
  /\ pc \in {"facade", "lime"}
  /\ {"x"} \subseteq defined
  /\ dashboard' = [instances |-> x,
                   local_explanations |-> local_explanations,
                   shown |-> FALSE]
  /\ defined' = defined \cup {"dashboard"}
  /\ trace' = Append(trace, "Dashboard")
  /\ pc' = "dashboard"
  /\ UNCHANGED <<input, x, explainer, local_explanations, calls, returned,
                 rendered>>
  /\ UNCHANGED fnVars
ConstructDashboard_shaponly ==
  /\ pc = "lime"
  /\ {"x", "local_explanations"} \subseteq defined
  /\ dashboard' = [instances |-> x,
                   local_explanations |->
                     [n \in DOMAIN local_explanations \cap {"shap"} |->
                        local_explanations[n]],
                   shown |-> FALSE]
  /\ defined' = defined \cup {"dashboard"}
  /\ trace' = Append(trace, "Dashboard")
  /\ pc' = "dashboard"
  /\ UNCHANGED <<input, x, explainer, local_explanations, calls, returned,
                 rendered>>
  /\ UNCHANGED fnVars
ConstructDashboard ==
  /\ pc = "lime"
  /\ {"x", "local_explanations"} \subseteq defined
  /\ dashboard' = [instances |-> x,
                   local_explanations |-> local_explanations,
                   shown |-> FALSE]
  /\ defined' = defined \cup {"dashboard"}
  /\ trace' = Append(trace, "Dashboard")
  /\ pc' = "dashboard"
  /\ UNCHANGED <<input, x, explainer, local_explanations, calls, returned,
                 rendered>>
  /\ UNCHANGED fnVars

\* dashboard.show()
ShowDashboard ==
  /\ pc = "dashboard"
  /\ "dashboard" \in defined
  /\ dashboard' = [dashboard EXCEPT !.shown = TRUE]
  /\ trace' = Append(trace, "show")
  /\ pc' = "serving"
  /\ UNCHANGED <<input, defined, x, explainer, local_explanations, calls,
                 returned, rendered>>
  /\ UNCHANGED fnVars

Next ==
  \/ ConstructText
  \/ DefineAdapters
  \/ ConstructExplainer
  \/ Explain
  \/ PlotShap
  \/ PlotLime
  \/ ConstructDashboard
  \/ ShowDashboard

Spec == Init /\ [][Next]_vars

\* ------------------------------------------------------ adapter harness
InitFn ==
  /\ NbIdle
  /\ fnPc = "idle"
  /\ src \in SeqsUpTo(Strings, 0, MaxLen)
  /\ text = Text(src)
  /\ batch = <<>> /\ outputs = <<>> /\ scores = NoArray

\* batch = preprocess(text)
ApplyPreprocess ==
  /\ fnPc = "idle"
  /\ batch' = preprocess(text)
  /\ fnPc' = "pre"
  /\ UNCHANGED <<src, text, outputs, scores>>
  /\ UNCHANGED nbVars

\* outputs = model(batch); the pipeline is given at least one string
CallModel ==
  /\ fnPc = "pre"
  /\ Len(batch) >= 1
  /\ outputs' \in ModelOutputs(Len(batch))
  /\ fnPc' = "model"
  /\ UNCHANGED <<src, text, batch, scores>>
  /\ UNCHANGED nbVars

\* scores = postprocess(outputs)
ApplyPostprocess ==
  /\ fnPc = "model"
  /\ scores' = postprocess(outputs)
  /\ fnPc' = "post"
  /\ UNCHANGED <<src, text, batch, outputs>>
  /\ UNCHANGED nbVars

NextFn ==
  \/ ApplyPreprocess
  \/ CallModel
  \/ ApplyPostprocess

SpecFn == InitFn /\ [][NextFn]_vars

\* ---------------------------------------------------------------- claims
Did(step) == step \in Range(trace)
At(step) == CHOOSE i \in 1..Len(trace) : trace[i] = step

\* the statements of the notebook in cell order
Order == <<"Text", "adapters", "NLPExplainer", "explain", "plot_shap",
           "plot_lime", "Dashboard", "show">>

\* C1: once explain has returned, the key set of the returned mapping is
\* exactly the set of configured explainer names, which is {"shap", "lime"},
\* and every key is bound to one explanation object of that method.
C1_KeysAreExplainers ==
  Did("explain") =>
    /\ DOMAIN local_explanations = Range(explainer.explainers)
    /\ DOMAIN local_explanations = {"shap", "lime"}
    /\ \A n \in DOMAIN local_explanations :
         local_explanations[n] \in
           [method : {"shap", "lime"}, attribution : 0..MaxAttr]

C1_Witness ==
  /\ pc = "explained"
  /\ "shap" \in DOMAIN local_explanations
  /\ "lime" \in DOMAIN local_explanations
  /\ Cardinality(DOMAIN local_explanations) = 2

\* C2: the statements run in cell order, each at most once and one at a
\* time; explain runs only after the facade was constructed with model,
\* preprocess and postprocess, and the Dashboard is constructed only after
\* explain has returned.
C2_LinearOrder ==
  /\ Len(trace) <= Len(Order)
  /\ trace = SubSeq(Order, 1, Len(trace))
  /\ Did("explain") =>
       /\ Did("NLPExplainer") /\ At("NLPExplainer") < At("explain")
       /\ {"model", "preprocess", "postprocess", "explainer"} \subseteq defined
       /\ explainer.model = "model"
       /\ explainer.preprocess = "preprocess"
       /\ explainer.postprocess = "postprocess"
       /\ Len(calls) = 1
  /\ Did("Dashboard") =>
       /\ Did("explain") /\ At("explain") < At("Dashboard")
       /\ "local_explanations" \in defined

C2_Witness ==
  /\ pc = "serving"
  /\ trace = Order
  /\ dashboard.shown

\* C4: ipython_plot runs exactly once on every explanation of the returned
\* mapping, on the SHAP explanation before the LIME explanation, and every
\* rendering lies after explain and before the Dashboard construction.
C4_RenderEachOnce ==
  /\ \A i \in 1..Len(rendered) :
       /\ Did("explain") /\ At("explain") < rendered[i].at
       /\ Did("Dashboard") => rendered[i].at < At("Dashboard")
       /\ rendered[i].key \in DOMAIN returned
       /\ rendered[i].obj = returned[rendered[i].key]
  /\ Did("Dashboard") =>
       /\ \A n \in DOMAIN returned :
            Cardinality({i \in 1..Len(rendered) : rendered[i].key = n}) = 1
       /\ Len(rendered) = 2
       /\ rendered[1].key = "shap"
       /\ rendered[2].key = "lime"

C4_Witness ==
  /\ pc = "dashboard"
  /\ Len(rendered) = 2
  /\ rendered[1].obj = returned["shap"]
  /\ rendered[2].obj = returned["lime"]
  /\ rendered[1].obj.attribution # rendered[2].obj.attribution

\* C5: from the return of explain on, x is the value that was passed to
\* explain and local_explanations is the mapping that explain returned,
\* and the Dashboard is constructed with exactly these two values.
C5_DashboardGetsSameValues ==
  Did("explain") =>
    /\ x = calls[1].arg
    /\ x = Text(input)
    /\ local_explanations = returned
    /\ Did("Dashboard") =>
         /\ dashboard.instances = calls[1].arg
         /\ dashboard.local_explanations = returned

C5_Witness ==
  /\ pc = "dashboard"
  /\ Len(rendered) = 2
  /\ dashboard.instances = Text(input)
  /\ Len(dashboard.instances.values) = 2
  /\ DOMAIN dashboard.local_explanations = {"shap", "lime"}
  /\ dashboard.local_explanations = returned

\* C8: preprocess applied to a Text built from a sequence s of strings
\* returns exactly s (same length, same strings, same order) and leaves
\* the Text as it was.
C8_PreprocessReturnsWrapped ==
  fnPc # "idle" =>
    /\ Len(batch) = Len(src)
    /\ \A i \in 1..Len(src) : batch[i] = src[i]
    /\ text = Text(src)

C8_Witness ==
  /\ fnPc = "pre"
  /\ Len(src) = 2
  /\ src[1] # src[2]
  /\ batch = src

====
